---- MODULE Spec2Model ----
(***************************************************************************)
(* Model of src/bot.py: the Vinted -> Telegram polling bot.                *)
(*                                                                         *)
(* Two specifications:                                                     *)
(*   Spec / LiveSpec  the process: main(), scan_once() and what they call, *)
(*                    with the seen-set, its file and the process restart; *)
(*   SpecEval         evaluate_item as a pure function of (search, info).  *)
(*                                                                         *)
(* Conventions.  An optional Python value is a sequence: None is << >> and *)
(* a value v is <<v>>.  Money is in cents (0.06 EUR is 6), so that the     *)
(* unit price price / qty is the exact fraction [num, den]; float rounding *)
(* is not modelled.  A text is a sequence of one-character strings.        *)
(***************************************************************************)
EXTENDS Integers, Sequences, FiniteSets, TLC

VARIABLES
    pc,            \* position of main() and scan_once(), one of PCs
    caller,        \* the try block scan_once runs under: "initial" | "loop"
    qi,            \* index in SEARCHES of the query scan_once is at
    remaining,     \* items of the current search result not yet iterated
    SEEN,          \* the global SEEN (bot.py:95)
    seenFile,      \* contents of seen.json
    sent_count,    \* scan_once's local sent_count
    configured,    \* TOKEN and CHAT_ID are both set
    POLL_SECONDS,  \* bot.py:26
    last,          \* history: what the last step did
    everVerdicted, \* history: ids evaluate_item returned for, all lifetimes
    verdicted,     \* history: ids evaluate_item returned for, this lifetime
    evSearch,      \* SpecEval: the query
    evInfo,        \* SpecEval: the listing
    evResult       \* SpecEval: << >> or <<evaluate_item(evSearch, evInfo)>>

scanVars == <<pc, caller, qi, remaining, SEEN, seenFile, sent_count, configured,
              POLL_SECONDS, last, everVerdicted, verdicted>>
evalVars == <<evSearch, evInfo, evResult>>
vars == <<scanVars, evalVars>>

----------------------------------------------------------------------------
(* Bounds *)

MaxId == 2          \* listing ids are 1..MaxId; 0 is a missing (falsy) id
MaxItems == 2       \* items in one search result
MaxLen == 6         \* SpecEval: length of a title

(* Program constants *)

MAX_ITEM_AGE_MIN == 60
DefaultPoll == 90
JitterLo == -5
JitterHi == 8
MaxDigits == 5
MinQty == 1
MaxQty == 5000

None == << >>
Some(v) == <<v>>
Val(o) == o[1]

Ids == 1..MaxId

----------------------------------------------------------------------------
(* Texts and numbers *)

Digits == {"0", "1", "2", "3", "4", "5", "6", "7", "8", "9"}
Chars == {"a", "0", "1"}

DigitVal(c) ==
    CASE c = "0" -> 0 [] c = "1" -> 1 [] c = "2" -> 2 [] c = "3" -> 3
      [] c = "4" -> 4 [] c = "5" -> 5 [] c = "6" -> 6 [] c = "7" -> 7
      [] c = "8" -> 8 [] c = "9" -> 9

RECURSIVE ToInt(_)
ToInt(s) == IF s = << >> THEN 0
            ELSE 10 * ToInt(SubSeq(s, 1, Len(s) - 1)) + DigitVal(s[Len(s)])

\* A title that is a JSON value other than a string or null (a number, say).
NonText == <<"<number>">>
IsText(t) == \A i \in 1..Len(t) : t[i] \in Chars \cup Digits

\* num_re.search: the leftmost run of digits, cut at MaxDigits.
FirstRun(text) ==
    IF \A i \in 1..Len(text) : text[i] \notin Digits THEN << >>
    ELSE LET s == CHOOSE i \in 1..Len(text) :
                      /\ text[i] \in Digits
                      /\ \A j \in 1..(i - 1) : text[j] \notin Digits
             e == CHOOSE k \in s..Len(text) :
                      /\ k - s + 1 <= MaxDigits
                      /\ \A j \in s..k : text[j] \in Digits
                      /\ \/ k - s + 1 = MaxDigits
                         \/ k = Len(text)
                         \/ text[k + 1] \notin Digits
         IN SubSeq(text, s, e)

extract_quantity_from_text(text) ==
    IF text = << >> THEN None
    ELSE LET run == FirstRun(text)
         IN IF run = << >> THEN None
            ELSE IF MinQty <= ToInt(run) /\ ToInt(run) <= MaxQty
                 THEN Some(ToInt(run))
                 ELSE None

\* parse_float on the raw prices of the model: null or a number.
parse_float(val) == IF val = None THEN 0 ELSE Val(val)

----------------------------------------------------------------------------
(* Configuration *)

\* SEARCHES (bot.py:30-63), money in cents.
SEARCHES == <<
    [name |-> "Pokemon bulk", max_price |-> None, max_unit_price |-> Some(6),
     min_quantity |-> Some(80)],
    [name |-> "YuGiOh bulk", max_price |-> None, max_unit_price |-> Some(4),
     min_quantity |-> Some(80)],
    [name |-> "Lego vrac", max_price |-> Some(3000), max_unit_price |-> None,
     min_quantity |-> None],
    [name |-> "Game Boy", max_price |-> Some(4000), max_unit_price |-> None,
     min_quantity |-> None] >>

\* Python truthiness of an optional number: None and 0 are falsy.
Truthy(o) == o # None /\ Val(o) # 0

----------------------------------------------------------------------------
(* Persistence of the seen ids.  A file is None (missing, or not valid     *)
(* JSON) or Some(set of ids).                                              *)

load_seen(file) == IF file = None THEN {} ELSE Val(file)

\* The files save_seen can leave: the ids written; or, on a caught failure,
\* the old file (open failed) or a truncated one (the write failed).
save_seen(seen_ids, file) ==
    { [file |-> Some(seen_ids), via |-> "saved"],
      [file |-> file, via |-> "savefail"],
      [file |-> None, via |-> "savefail"] }

----------------------------------------------------------------------------
(* Notification *)

\* What one call of send_telegram does: "log" (prints the message and
\* returns) when the credentials are missing, else "post" (requests.post; a
\* status >= 300 or a transport error is printed, never raised).
send_telegram_unguarded(conf) == "post"
send_telegram(conf) == IF ~conf THEN "log" ELSE "post"

----------------------------------------------------------------------------
(* Listings *)

\* item_info: the fields of a raw dict item that the scan reads (the url is
\* only formatted into the message).
item_info(item) ==
    [id |-> item.id,
     title |-> IF item.title = None \/ Val(item.title) = << >>
               THEN << >> ELSE Val(item.title),
     price |-> parse_float(item.price),
     created_dt |-> IF Truthy(item.created_at_ts) THEN item.created_at_ts
                    ELSE None]

is_recent_always(created_dt, now) == TRUE
\* is_recent: ages are compared in seconds (age_min <= MAX_ITEM_AGE_MIN).
is_recent(created_dt, now) ==
    IF created_dt = None THEN TRUE
    ELSE now - Val(created_dt) <= MAX_ITEM_AGE_MIN * 60

----------------------------------------------------------------------------
(* Filter rules *)

FailsMinQuantityOff(search, qty) == FALSE
\* bot.py:206
FailsMinQuantity(search, qty) ==
    /\ Truthy(search.min_quantity)
    /\ (~Truthy(qty) \/ Val(qty) < Val(search.min_quantity))

FailsMaxPriceStrict(search, price) ==
    search.max_price # None /\ price >= Val(search.max_price)
\* bot.py:210
FailsMaxPrice(search, price) ==
    search.max_price # None /\ price > Val(search.max_price)

\* The exact quotient num / den, den > 0.
Quot(num, den) == [num |-> num, den |-> den]
QuotGT(q, m) == q.num > m * q.den

Raised == [raised |-> TRUE, ok |-> FALSE, qty |-> None, unit_price |-> None]
Result(ok, qty, unit_price) ==
    [raised |-> FALSE, ok |-> ok, qty |-> qty, unit_price |-> unit_price]

\* evaluate_item; a title that is not a string makes text.replace raise.
evaluate_item(search, info) ==
    IF ~IsText(info.title) THEN Raised
    ELSE LET qty == extract_quantity_from_text(info.title)
         IN IF FailsMinQuantity(search, qty) THEN Result(FALSE, qty, None)
            ELSE IF FailsMaxPrice(search, info.price)
                 THEN Result(FALSE, qty, None)
            ELSE IF search.max_unit_price = None THEN Result(TRUE, qty, None)
            ELSE IF ~Truthy(qty) \/ Val(qty) <= 0
                 THEN Result(FALSE, qty, None)
            ELSE LET unit_price == Quot(info.price, Val(qty))
                 IN IF QuotGT(unit_price, Val(search.max_unit_price))
                    THEN Result(FALSE, qty, Some(unit_price))
                    ELSE Result(TRUE, qty, Some(unit_price))

----------------------------------------------------------------------------
(* Inputs of the process *)

\* datetime.now(), in seconds: one reading, late enough for a listing to be
\* too old (is_recent depends on now - created only).
Clocks == {MAX_ITEM_AGE_MIN * 60 + 2}

\* created_at_ts: absent, 0 (falsy), one second too old, just young enough.
RawTimes(now) == {None, Some(0), Some(now - MAX_ITEM_AGE_MIN * 60 - 1),
                  Some(now - MAX_ITEM_AGE_MIN * 60)}
\* title: absent, empty, no number, 100, 10, not a string.
RawTitles == {None, Some(<< >>), Some(<<"a">>), Some(<<"1", "0", "0">>),
              Some(<<"a", "1", "0">>), Some(NonText)}
\* price: absent, 2.40, 35.00.
RawPrices == {None, Some(240), Some(3500)}
\* The raw items that are dicts, by the fields item_info reads.
DictItems(now) == [id : 0..MaxId, title : RawTitles, price : RawPrices,
                   created_at_ts : RawTimes(now)]
Jitters == {JitterLo, 0, JitterHi}
PollValues == {0, DefaultPoll}

----------------------------------------------------------------------------
(* The process *)

PCs == {"main_initial", "main_loop", "fetch", "items", "finish", "sleep",
        "pause"}

Did(op) == [op |-> op, id |-> 0, via |-> "none", age |-> None,
            would |-> "n/a", again |-> FALSE, reverdict |-> FALSE]
\* What the loop body did with a listing: its id, its age in seconds (None
\* when created_dt is None) and what evaluate_item gives for it under the
\* current query; whether the id had a verdict before (again: ever,
\* reverdict: in this lifetime).
DidItem(op, x, via, would) ==
    [op |-> op, id |-> x.id, via |-> via, age |-> x.age, would |-> would,
     again |-> (op \in {"match", "reject"} /\ x.id \in everVerdicted),
     reverdict |-> (op \in {"match", "reject"} /\ x.id \in verdicted)]

Would(r) == IF r.raised THEN "raise" ELSE IF r.ok THEN "match" ELSE "reject"
Age(created_dt, now) ==
    IF created_dt = None THEN None ELSE Some(now - Val(created_dt))

\* Every input of one pass of the loop body (a clock reading and a raw dict
\* item), reduced to what the body computes from it: info = item_info(it),
\* is_recent(info["created_dt"]) and evaluate_item(search, info) per query.
Computed(now, it) ==
    LET info == item_info(it)
    IN [id |-> info.id,
        age |-> Age(info.created_dt, now),
        recent |-> is_recent(info.created_dt, now),
        would |-> [q \in DOMAIN SEARCHES |->
                      Would(evaluate_item(SEARCHES[q], info))]]
Inputs == UNION {{Computed(now, it) : it \in DictItems(now)} : now \in Clocks}

\* The inputs with an id as the loop body meets them under query q: the too
\* old ones, and the recent ones by what evaluate_item gives.
Listing(x, q) == [id |-> x.id, age |-> x.age, recent |-> x.recent,
                  would |-> x.would[q]]
TooOldListings ==
    [q \in DOMAIN SEARCHES |->
        {Listing(x, q) : x \in {y \in Inputs : y.id # 0 /\ ~y.recent}}]
RecentListings ==
    [q \in DOMAIN SEARCHES |->
        [w \in {"match", "reject", "raise"} |->
            {Listing(x, q) :
                x \in {y \in Inputs : y.id # 0 /\ y.recent /\ y.would[q] = w}}]]

Init ==
    /\ pc = "main_initial"
    /\ caller = "initial"
    /\ qi = 1
    /\ remaining = 0
    /\ seenFile = None
    /\ SEEN = load_seen(seenFile)
    /\ sent_count = 0
    /\ configured \in BOOLEAN
    /\ POLL_SECONDS \in PollValues
    /\ last = Did("init")
    /\ everVerdicted = {}
    /\ verdicted = {}
    /\ evSearch = SEARCHES[1]
    /\ evInfo = [title |-> << >>, price |-> 0]
    /\ evResult = << >>

\* main's two except blocks: the initial scan's falls through to the loop,
\* the loop's sleeps 10 s (bot.py:285-286, 295-297).
RaiseToNowhere(c) == "crashed"
RaiseTo(c) == IF c = "initial" THEN "main_loop" ELSE "pause"

\* Where main goes when scan_once returns (bot.py:284, 290-294).
AfterReturnNoSleep(c) == "main_loop"
AfterReturn(c) == IF c = "initial" THEN "main_loop" ELSE "sleep"

AlreadySeenNever(id, seen) == FALSE
\* bot.py:239
AlreadySeen(id, seen) == id \in seen

MarkSeenOnly(seen, id) == {id}
\* SEEN.add on the too-old and the matched listing (bot.py:244, 249)
MarkSeen(seen, id) == seen \cup {id}

MarkRejectedNot(seen, id) == seen
\* SEEN.add on the rejected listing (bot.py:268)
MarkRejected(seen, id) == seen \cup {id}

ShouldSaveAlways(n) == TRUE
\* bot.py:270
ShouldSave(n) == n # 0

\* An exception leaves scan_once: its locals are gone, main catches it.
Raise(op, x, would) ==
    /\ pc' = RaiseTo(caller)
    /\ qi' = 1
    /\ remaining' = 0
    /\ sent_count' = 0
    /\ last' = DidItem(op, x, "none", would)

\* main calls scan_once (bot.py:284 or 290); scan_once starts (bot.py:227).
ScanStart ==
    /\ pc \in {"main_initial", "main_loop"}
    /\ caller' = IF pc = "main_initial" THEN "initial" ELSE "loop"
    /\ pc' = "fetch"
    /\ qi' = 1
    /\ remaining' = 0
    /\ sent_count' = 0
    /\ last' = Did("start")
    /\ UNCHANGED <<SEEN, seenFile, configured, POLL_SECONDS, everVerdicted,
                   verdicted, evalVars>>

\* search_vinted answers with up to MaxItems items, then the short pause
\* (bot.py:231-233).
Fetch ==
    /\ pc = "fetch"
    /\ \E n \in 0..MaxItems : remaining' = n
    /\ pc' = "items"
    /\ last' = Did("fetch")
    /\ UNCHANGED <<caller, qi, SEEN, seenFile, sent_count, configured,
                   POLL_SECONDS, everVerdicted, verdicted, evalVars>>

\* search_vinted fails (status, transport, JSON) and returns [].
FetchFail ==
    /\ pc = "fetch"
    /\ remaining' = 0
    /\ pc' = "items"
    /\ last' = Did("fetch_fail")
    /\ UNCHANGED <<caller, qi, SEEN, seenFile, sent_count, configured,
                   POLL_SECONDS, everVerdicted, verdicted, evalVars>>

\* The loop body on an item that is no dict: item_info raises (bot.py:162).
ItemRaise ==
    /\ pc = "items" /\ remaining > 0
    /\ Raise("inforaise", [id |-> 0, age |-> None], "raise")
    /\ UNCHANGED <<caller, SEEN, seenFile, configured, POLL_SECONDS,
                   everVerdicted, verdicted, evalVars>>

\* bot.py:237-238
ItemNoId ==
    /\ pc = "items" /\ remaining > 0
    /\ \E x \in Inputs : x.id = 0
    /\ last' = Did("noid")
    /\ remaining' = remaining - 1
    /\ UNCHANGED <<pc, caller, qi, SEEN, seenFile, sent_count, configured,
                   POLL_SECONDS, everVerdicted, verdicted, evalVars>>

\* bot.py:239-240
ItemSeen ==
    /\ pc = "items" /\ remaining > 0
    /\ \E id \in Ids :
        /\ AlreadySeen(id, SEEN)
        /\ last' = [Did("seen") EXCEPT !.id = id]
    /\ remaining' = remaining - 1
    /\ UNCHANGED <<pc, caller, qi, SEEN, seenFile, sent_count, configured,
                   POLL_SECONDS, everVerdicted, verdicted, evalVars>>

\* bot.py:242-245
ItemOld ==
    /\ pc = "items" /\ remaining > 0
    /\ \E x \in TooOldListings[qi] :
        /\ ~AlreadySeen(x.id, SEEN)
        /\ ~x.recent
        /\ SEEN' = MarkSeen(SEEN, x.id)
        /\ last' = DidItem("old", x, "none", x.would)
    /\ remaining' = remaining - 1
    /\ UNCHANGED <<pc, caller, qi, seenFile, sent_count, configured,
                   POLL_SECONDS, everVerdicted, verdicted, evalVars>>

\* evaluate_item raises on the listing (bot.py:247, 117).
ItemEvalRaise ==
    /\ pc = "items" /\ remaining > 0
    /\ \E x \in RecentListings[qi]["raise"] :
        /\ ~AlreadySeen(x.id, SEEN)
        /\ x.recent
        /\ x.would = "raise"
        /\ Raise("evalraise", x, "raise")
    /\ UNCHANGED <<caller, SEEN, seenFile, configured, POLL_SECONDS,
                   everVerdicted, verdicted, evalVars>>

\* bot.py:247-265
ItemMatch ==
    /\ pc = "items" /\ remaining > 0
    /\ \E x \in RecentListings[qi]["match"] :
        /\ ~AlreadySeen(x.id, SEEN)
        /\ x.recent
        /\ x.would = "match"
        /\ SEEN' = MarkSeen(SEEN, x.id)
        /\ last' = DidItem("match", x, send_telegram(configured), "match")
        /\ everVerdicted' = everVerdicted \cup {x.id}
        /\ verdicted' = verdicted \cup {x.id}
    /\ sent_count' = sent_count + 1
    /\ remaining' = remaining - 1
    /\ UNCHANGED <<pc, caller, qi, seenFile, configured, POLL_SECONDS,
                   evalVars>>

\* bot.py:247, 266-268
ItemReject ==
    /\ pc = "items" /\ remaining > 0
    /\ \E x \in RecentListings[qi]["reject"] :
        /\ ~AlreadySeen(x.id, SEEN)
        /\ x.recent
        /\ x.would = "reject"
        /\ SEEN' = MarkRejected(SEEN, x.id)
        /\ last' = DidItem("reject", x, "none", "reject")
        /\ everVerdicted' = everVerdicted \cup {x.id}
        /\ verdicted' = verdicted \cup {x.id}
    /\ remaining' = remaining - 1
    /\ UNCHANGED <<pc, caller, qi, seenFile, sent_count, configured,
                   POLL_SECONDS, evalVars>>

\* The inner for loop is exhausted: the next query, or the end of the outer
\* loop (bot.py:228, 235).
NextQuery ==
    /\ pc = "items" /\ remaining = 0
    /\ IF qi < Len(SEARCHES)
       THEN qi' = qi + 1 /\ pc' = "fetch"
       ELSE qi' = qi /\ pc' = "finish"
    /\ last' = Did("next")
    /\ UNCHANGED <<caller, remaining, SEEN, seenFile, sent_count, configured,
                   POLL_SECONDS, everVerdicted, verdicted, evalVars>>

\* The end of scan_once and its return to main (bot.py:270-272).
Finish ==
    /\ pc = "finish"
    /\ IF ShouldSave(sent_count)
       THEN \E w \in save_seen(SEEN, seenFile) :
               /\ seenFile' = w.file
               /\ last' = [Did("finish") EXCEPT !.via = w.via]
       ELSE /\ seenFile' = seenFile
            /\ last' = [Did("finish") EXCEPT !.via = "nosave"]
    /\ pc' = AfterReturn(caller)
    /\ qi' = 1
    /\ sent_count' = 0
    /\ UNCHANGED <<caller, remaining, SEEN, configured, POLL_SECONDS,
                   everVerdicted, verdicted, evalVars>>

\* time.sleep(POLL_SECONDS + jitter) (bot.py:294)
Sleep ==
    /\ pc = "sleep"
    /\ \E j \in Jitters : POLL_SECONDS + j >= 0
    /\ pc' = "main_loop"
    /\ last' = Did("sleep")
    /\ UNCHANGED <<caller, qi, remaining, SEEN, seenFile, sent_count,
                   configured, POLL_SECONDS, everVerdicted, verdicted,
                   evalVars>>

\* time.sleep of a negative length raises ValueError, caught at bot.py:295.
SleepRaise ==
    /\ pc = "sleep"
    /\ \E j \in Jitters : POLL_SECONDS + j < 0
    /\ pc' = RaiseTo("loop")
    /\ last' = Did("sleep_raise")
    /\ UNCHANGED <<caller, qi, remaining, SEEN, seenFile, sent_count,
                   configured, POLL_SECONDS, everVerdicted, verdicted,
                   evalVars>>

\* time.sleep(10) in the loop's except block (bot.py:297)
Pause ==
    /\ pc = "pause"
    /\ pc' = "main_loop"
    /\ last' = Did("pause")
    /\ UNCHANGED <<caller, qi, remaining, SEEN, seenFile, sent_count,
                   configured, POLL_SECONDS, everVerdicted, verdicted,
                   evalVars>>

\* The process is stopped and started again: SEEN = load_seen() (bot.py:95).
Restart ==
    /\ pc' = "main_initial"
    /\ caller' = "initial"
    /\ qi' = 1
    /\ remaining' = 0
    /\ SEEN' = load_seen(seenFile)
    /\ sent_count' = 0
    /\ last' = Did("restart")
    /\ verdicted' = {}
    /\ UNCHANGED <<seenFile, configured, POLL_SECONDS, everVerdicted,
                   evalVars>>

Program ==
    \/ ScanStart
    \/ Fetch
    \/ FetchFail
    \/ ItemRaise
    \/ ItemNoId
    \/ ItemSeen
    \/ ItemOld
    \/ ItemEvalRaise
    \/ ItemMatch
    \/ ItemReject
    \/ NextQuery
    \/ Finish
    \/ Sleep
    \/ SleepRaise
    \/ Pause

Next == Program \/ Restart

Spec == Init /\ [][Next]_vars

\* Every call of the process returns: the requests have timeouts and the
\* sleeps are finite, so the single thread always takes its next step.
LiveSpec == Init /\ [][Next]_vars /\ WF_vars(Program)

----------------------------------------------------------------------------
(* evaluate_item as a function: every query of EvSearches on every listing  *)
(* with a title of at most MaxLen characters.                               *)

EvSearches == [max_price : {None, Some(0), Some(3000)},
               max_unit_price : {None, Some(6)},
               min_quantity : {None, Some(0), Some(10), Some(101)}]
EvTitles == UNION {[1..n -> Chars] : n \in 0..MaxLen}
EvPrices == {0, 60, 61, 3001}

InitEval ==
    /\ pc = "main_initial"
    /\ caller = "initial"
    /\ qi = 1
    /\ remaining = 0
    /\ seenFile = None
    /\ SEEN = {}
    /\ sent_count = 0
    /\ configured = FALSE
    /\ POLL_SECONDS = DefaultPoll
    /\ last = Did("init")
    /\ everVerdicted = {}
    /\ verdicted = {}
    /\ evSearch \in EvSearches
    /\ evInfo \in [title : EvTitles, price : EvPrices]
    /\ evResult = << >>

Evaluate ==
    /\ evResult = << >>
    /\ evResult' = <<evaluate_item(evSearch, evInfo)>>
    /\ UNCHANGED <<scanVars, evSearch, evInfo>>

NextEval == Evaluate

SpecEval == InitEval /\ [][NextEval]_vars

----------------------------------------------------------------------------
(* Claims *)

EvalOps == {"match", "reject", "evalraise"}
RaiseOps == {"inforaise", "evalraise"}
TooOld(age) == age # None /\ Val(age) > MAX_ITEM_AGE_MIN * 60

\* C1: a listing whose id is in SEEN when the loop body meets it is not
\* passed to evaluate_item and causes no send_telegram call; and every id the
\* body handles without raising is in SEEN afterwards, so that a later cycle
\* over the same listings evaluates and notifies nothing.
C1_SeenNeverEvaluated ==
    [][ /\ last'.op \in EvalOps => last'.id \notin SEEN
        /\ last'.via \in {"post", "log"} => last'.id \notin SEEN
        /\ last'.op \in {"seen", "old", "match", "reject"} => last'.id \in SEEN'
      ]_vars

\* An id that got its verdict earlier in this lifetime is met again and skipped.
C1_Witness == last.op = "seen" /\ last.id \in verdicted

\* C2, as stated: no id is evaluated (gets a verdict of evaluate_item) a
\* second time, ever.
C2_Original == ~last.again

\* C2, amended: within one process lifetime every id for which evaluate_item
\* returns (matched or not) is in SEEN from then on, no id gets a second
\* verdict, and send_telegram is called only with a first verdict, so no id
\* is notified twice.
C2_OncePerLifetime ==
    /\ ~last.reverdict
    /\ verdicted \subseteq SEEN
    /\ last.op \in {"match", "reject"} => last.id \in verdicted
    /\ last.via \in {"post", "log"} => last.op = "match"

\* A rejected id is marked seen; it had its verdict of an earlier lifetime.
C2_Witness ==
    last.op = "reject" /\ last.again /\ last.id \in SEEN /\ verdicted = Ids

\* C3: an unseen listing with a known creation time older than the maximum
\* age is marked seen, not evaluated and not notified, whatever evaluate_item
\* would say of it; one with no known creation time goes on to evaluate_item.
C3_TooOldNeverEvaluated ==
    last.op \in EvalOps \cup {"old"} =>
        /\ TooOld(last.age) =>
               last.op = "old" /\ last.id \in SEEN /\ last.via = "none"
        /\ last.age = None => last.op \in EvalOps

\* A too-old listing that would have matched is only marked seen.
C3_Witness ==
    last.op = "old" /\ last.would = "match" /\ last.id \in SEEN
    /\ last.id \notin verdicted

FinishStep == pc = "finish" /\ last'.op = "finish"

\* C4, as stated: the file changes only at the end of a cycle; a cycle that
\* ends with sent_count nonzero leaves it equal to SEEN, one that ends with
\* sent_count zero leaves it as it was.
C4_Original ==
    [][ IF FinishStep
        THEN IF sent_count # 0 THEN seenFile' = Some(SEEN)
             ELSE seenFile' = seenFile
        ELSE seenFile' = seenFile ]_vars

\* C4, amended: save_seen is called at the end of a cycle exactly when
\* sent_count is nonzero; when its write succeeds the file equals SEEN (every
\* notified id included), when it fails (the failure is caught and printed)
\* the file is the old one or unreadable; a cycle with sent_count zero
\* leaves the file as it was.
C4_SavedIffSent ==
    [][ IF FinishStep
        THEN /\ sent_count = 0 =>
                   last'.via = "nosave" /\ seenFile' = seenFile
             /\ sent_count # 0 =>
                   /\ last'.via \in {"saved", "savefail"}
                   /\ last'.via = "saved" =>
                          /\ seenFile' = Some(SEEN)
                          /\ verdicted \subseteq Val(seenFile')
                   /\ last'.via = "savefail" => seenFile' \in {seenFile, None}
        ELSE seenFile' = seenFile ]_vars

\* The file was written with all of SEEN, an id that was never evaluated
\* included.
C4_Witness ==
    /\ last.op = "finish" /\ last.via = "saved"
    /\ seenFile = Some(SEEN)
    /\ verdicted # {} /\ verdicted # SEEN

\* C5, as stated: an exception that escapes a scan cycle, the initial one
\* included, is followed by the pause.
C5_Original == [][last'.op \in RaiseOps => pc' = "pause"]_vars

\* C5, amended: an exception that escapes a cycle of the loop is caught and
\* followed by the 10 s pause; one that escapes the initial scan is caught
\* and the loop's first cycle starts with no pause; either way main never
\* leaves its loop and a new cycle is started again and again.
C5_NeverTerminates ==
    /\ []<>(last.op = "start")
    /\ [](pc \in PCs)
    /\ [][last'.op \in RaiseOps =>
             pc' = IF caller = "initial" THEN "main_loop" ELSE "pause"]_vars
    /\ [][last.op \in RaiseOps /\ caller = "loop" =>
             last'.op \in {"pause", "restart"}]_vars

\* An exception escaped a cycle of the loop and main is at its pause.
C5_Witness == last.op = "evalraise" /\ caller = "loop" /\ pc = "pause"

\* C6, as stated: a cycle starts only at process start or right after a sleep.
C6_Original ==
    [][last'.op = "start" =>
           last.op \in {"init", "restart", "sleep", "pause"}]_vars

\* C6, amended: the initial scan is followed at once by the first cycle of
\* the loop; every cycle of the loop is followed, before the next one
\* starts, by the sleep of POLL_SECONDS plus jitter when it returned, or by
\* the 10 s pause when it raised or the sleep call itself raised.
C6_SleepBetweenLoopCycles ==
    [][ /\ last'.op = "start" =>
               IF caller' = "initial" THEN last.op \in {"init", "restart"}
               ELSE \/ last.op \in {"sleep", "pause"}
                    \/ /\ caller = "initial"
                       /\ last.op \in RaiseOps \cup {"finish"}
        /\ last.op = "finish" /\ caller = "loop" =>
               last'.op \in {"sleep", "sleep_raise", "restart"}
        /\ last.op = "sleep_raise" => last'.op \in {"pause", "restart"}
      ]_vars

\* A cycle of the loop has returned and main has slept.
C6_Witness == last.op = "sleep" /\ caller = "loop" /\ pc = "main_loop"

EvQty == extract_quantity_from_text(evInfo.title)
EvR == Val(evResult)
PassesMin ==
    \/ evSearch.min_quantity \in {None, Some(0)}
    \/ EvQty # None /\ Val(EvQty) >= Val(evSearch.min_quantity)

\* C7, as stated: with min_quantity set to any integer, 0 included, the
\* listing matches only if a quantity was extracted and is >= min_quantity.
C7_Original ==
    evResult # << >> /\ evSearch.min_quantity # None /\ EvR.ok =>
        EvQty # None /\ Val(EvQty) >= Val(evSearch.min_quantity)

\* C7, amended: with min_quantity set to a nonzero integer, the listing is
\* rejected unless a quantity was extracted and is >= min_quantity, and it
\* is rejected before the price rules (no unit price is computed).
C7_MinQuantity ==
    evResult # << >> /\ evSearch.min_quantity \notin {None, Some(0)} =>
        \/ EvQty # None /\ Val(EvQty) >= Val(evSearch.min_quantity)
        \/ ~EvR.ok /\ EvR.unit_price = None /\ EvR.qty = EvQty

\* Quantity 1 under min_quantity 10, with a unit price over the ceiling that
\* the price rules would have returned.
C7_Witness ==
    /\ evResult # << >>
    /\ evSearch.min_quantity = Some(10) /\ EvQty = Some(1)
    /\ evSearch.max_unit_price = Some(6) /\ evInfo.price = 61
    /\ evSearch.max_price = None
    /\ ~EvR.ok /\ EvR.unit_price = None

UnitRuleReached ==
    /\ PassesMin
    /\ evSearch.max_price # None => evInfo.price <= Val(evSearch.max_price)
    /\ evSearch.max_unit_price # None
    /\ EvQty # None /\ Val(EvQty) > 0

\* C8: for a listing that passes the min-quantity rule, matched means that
\* price <= max_price when max_price is set and, when max_unit_price is set,
\* that a quantity > 0 was extracted and price / quantity <= max_unit_price;
\* the unit price returned is price / quantity when it was computed, else
\* None; the quantity returned is the extracted one, also on rejection.
C8_PriceRules ==
    evResult # << >> =>
        /\ ~EvR.raised
        /\ EvR.qty = EvQty
        /\ PassesMin =>
               (EvR.ok <=>
                   /\ evSearch.max_price # None =>
                          evInfo.price <= Val(evSearch.max_price)
                   /\ evSearch.max_unit_price # None =>
                          /\ EvQty # None /\ Val(EvQty) > 0
                          /\ evInfo.price
                                 <= Val(evSearch.max_unit_price) * Val(EvQty))
        /\ EvR.unit_price =
               IF UnitRuleReached
               THEN Some([num |-> evInfo.price, den |-> Val(EvQty)])
               ELSE None

\* 0.60 for 10 pieces under a ceiling of 0.06: matched, unit price 60 / 10;
\* the price is at the total ceiling's side that passes.
C8_Witness ==
    /\ evResult # << >>
    /\ evSearch.max_unit_price = Some(6) /\ evSearch.max_price = Some(3000)
    /\ EvQty = Some(10) /\ evInfo.price = 60
    /\ EvR.ok /\ EvR.unit_price = Some([num |-> 60, den |-> 10])

\* C9: with the credentials unset, the step that handles a match posts
\* nothing and logs the message, marks the id seen, counts it in sent_count
\* and goes on with the next item, as with the credentials set.
C9_Unconfigured ==
    [][last'.op = "match" =>
           /\ last'.via = IF configured THEN "post" ELSE "log"
           /\ sent_count' = sent_count + 1
           /\ last'.id \in SEEN'
           /\ pc' = "items" /\ remaining' = remaining - 1]_vars

\* A cycle with a match and no credentials ran to its end and saved.
C9_Witness ==
    /\ ~configured
    /\ last.op = "finish" /\ last.via = "saved" /\ verdicted # {}

\* C10: no step of a process lifetime removes an id from SEEN.
C10_Monotone == [][last'.op # "restart" => SEEN \subseteq SEEN']_vars

\* After an exception was caught and the pause taken, SEEN holds every id.
C10_Witness == last.op = "pause" /\ SEEN = Ids /\ verdicted # Ids

====
